---------------------------- MODULE Spec2Model ----------------------------
(***************************************************************************)
(* A model of the DE_Challenge ETL pipeline (Mongo-style documents to      *)
(* PostgreSQL): the validators of etl/data_validations and                 *)
(* etl/data_quality_checks, the TransformationFactory pipelines, the       *)
(* Loader and the run_etl task of the Airflow DAG.                         *)
(***************************************************************************)
EXTENDS Integers, Sequences, FiniteSets, TLC

VARIABLES
    input,      \* the arguments of the function under verification
    result,     \* what the call produced: outcome and returned / mutated frame
    task,       \* Airflow's state of each task of data_pipeline_dag
    tries,      \* how many times each task was started
    run,        \* per task, the position and locals of its run_etl call
    db          \* the rows of each PostgreSQL table

vars == <<input, result, task, tries, run, db>>
callVars == <<input, result>>
dagVars == <<task, tries, run, db>>

---------------------------------------------------------------------------
(* Bounds of the model.                                                    *)

MaxRows == 2        \* rows of a DataFrame handed to a validator
MaxIdLen == 2       \* largest "length" attribute tried for an id column
MaxDocs == 2        \* documents in the input of a transform

---------------------------------------------------------------------------
(* Cell values.  A cell is a tagged record; text is a sequence of          *)
(* one-character strings so that len() and parsing are computed.           *)

Null == [k |-> "null"]          \* None
NaN == [k |-> "nan"]            \* the float pandas puts where a key is absent
Str(s) == [k |-> "str", s |-> s]
Num(n) == [k |-> "num", n |-> n]
Bool(b) == [k |-> "bool", b |-> b]
List(items) == [k |-> "list", items |-> items]
Dict(pairs) == [k |-> "dict", pairs |-> pairs]   \* <<key text, value>>, in order

IsNull(v) == v.k \in {"null", "nan"}         \* Series.isnull()
IsStr(v) == v.k = "str"

EmptyStr == Str(<< >>)
TxtA == Str(<<"A">>)
TxtB == Str(<<"B">>)
TxtAB == Str(<<"A", "B">>)
TxtBA == Str(<<"B", "A">>)
TxtABC == Str(<<"A", "B", "C">>)
TxtAbc == Str(<<"a", "b", "c">>)
TxtNum == Str(<<"1", ".", "5">>)
TxtNotADate == Str(<<"n", "o", "t", "-", "a", "-", "d", "a", "t", "e">>)
TxtDate == Str(<<"2", "0", "2", "3", "-", "0", "1", "-", "0", "1">>)
TxtBadDate == Str(<<"2", "0", "2", "3", "-", "1", "3", "-", "4", "5">>)
TxtTimestamp ==
    Str(<<"2", "0", "2", "3", "-", "0", "1", "-", "0", "1", "T",
          "1", "2", ":", "0", "0", ":", "0", "0", "Z">>)

TxtC1 == Str(<<"C", "1">>)
TxtC2 == Str(<<"C", "2">>)
Txt101 == Str(<<"1", "0", "1">>)
Txt102 == Str(<<"1", "0", "2">>)
Txt103 == Str(<<"1", "0", "3">>)
G1 == <<"g", "1">>
G2 == <<"g", "2">>

DigitChars == <<"0", "1", "2", "3", "4", "5", "6", "7", "8", "9">>
IsDigit(c) == \E i \in 1..10 : DigitChars[i] = c
DigitVal(c) == (CHOOSE i \in 1..10 : DigitChars[i] = c) - 1

RECURSIVE Digits(_)
Digits(n) == IF n < 10 THEN <<DigitChars[n + 1]>>
             ELSE Digits(n \div 10) \o <<DigitChars[(n % 10) + 1]>>

(* Python's str(x) as used by len(str(x)).                                 *)
PyStr(v) ==
    CASE v.k = "str" -> v.s
      [] v.k = "num" -> IF v.n < 0 THEN <<"-">> \o Digits(-v.n) ELSE Digits(v.n)
      [] v.k = "bool" -> IF v.b THEN <<"T", "r", "u", "e">>
                                ELSE <<"F", "a", "l", "s", "e">>
      [] v.k = "nan" -> <<"n", "a", "n">>
      [] OTHER -> <<"N", "o", "n", "e">>

(* Python truthiness, as "if supplier_groups:" tests it.  NaN is a         *)
(* non-zero float and therefore true.                                      *)
Truthy(v) ==
    CASE v.k \in {"null"} -> FALSE
      [] v.k = "nan" -> TRUE
      [] v.k = "str" -> Len(v.s) > 0
      [] v.k = "num" -> v.n # 0
      [] v.k = "bool" -> v.b
      [] v.k = "list" -> Len(v.items) > 0
      [] v.k = "dict" -> Len(v.pairs) > 0

OidKey == <<"$", "o", "i", "d">>
Oid(x) == Dict(<< <<OidKey, x>> >>)
HasKey(d, key) == d.k = "dict" /\ \E i \in 1..Len(d.pairs) : d.pairs[i][1] = key
Get(d, key) == d.pairs[CHOOSE i \in 1..Len(d.pairs) : d.pairs[i][1] = key][2]

---------------------------------------------------------------------------
(* DataFrames: an ordered list of column names and a list of rows.         *)

Frame(columns, rows) == [columns |-> columns, rows |-> rows]
Range(s) == {s[i] : i \in 1..Len(s)}
NoFrame == Frame(<< >>, << >>)
HasColumn(df, c) == c \in Range(df.columns)
Column(df, c) == [i \in 1..Len(df.rows) |-> df.rows[i][c]]

(* The dtype pandas gives a column: numeric when every cell is a number or *)
(* NaN, object otherwise.                                                  *)
Dtype(col) == IF \A i \in 1..Len(col) : col[i].k \in {"num", "nan"}
              THEN "float64" ELSE "object"

(* pd.DataFrame(data) and pd.json_normalize(data) on a list of documents   *)
(* whose keys are already in the dotted form the tests use: the columns    *)
(* are the keys that occur, a document without a key gets NaN there.       *)
FieldOrder ==
    <<"_id.$oid", "client_id", "client_id.$oid", "supplier_id.$oid",
      "sonar_run_id.$oid", "part_id.$oid", "name", "country", "page_status",
      "login", "automatic_priority", "alias", "date", "priority", "currency",
      "contract_start.$date", "contract_end.$date", "sonar_dates",
      "suppliers", "supplier_groups", "countries", "supplier_ids",
      "client_part_ids", "status", "category", "time.$date", "date.$date",
      "date_sonar.$date", "date_found.$date", "price_norm", "unit">>

Keys(data) == UNION {DOMAIN data[i] : i \in 1..Len(data)}
IsKey(data, key) == key \in Keys(data)

DataFrameOf(data) ==
    LET keys == Keys(data)
        columns == SelectSeq(FieldOrder, LAMBDA c : c \in keys)
    IN  Frame(columns,
              [i \in 1..Len(data) |->
                  [c \in keys |-> IF c \in DOMAIN data[i] THEN data[i][c]
                                                            ELSE NaN]])

(* Outcomes of a call.                                                     *)
Ok == [exc |-> "none", logged |-> "none", rule |-> "none"]
Raise(exc, rule) == [exc |-> exc, logged |-> exc, rule |-> rule]
(* logger.exception(...) followed by sys.exit(1)                           *)
SysExit(caught, rule) == [exc |-> "SystemExit", logged |-> caught, rule |-> rule]


---------------------------------------------------------------------------
(* etl/data_validations/data_validator.py                                  *)

(* Every exception raised inside the try block, the KeyError and the       *)
(* PrimaryKeyViolationException alike, is caught by "except Exception",    *)
(* logged, and turned into sys.exit(1).                                    *)
check_empty_or_null_and_raise(df, column_name) ==
    IF ~HasColumn(df, column_name) THEN SysExit("KeyError", "column")
    ELSE LET col == Column(df, column_name)
             is_null == \E i \in 1..Len(col) : IsNull(col[i])
             is_empty == IF Dtype(col) = "object"
                         THEN \E i \in 1..Len(col) : col[i] = EmptyStr
                         ELSE FALSE
         IN  IF is_null \/ is_empty
             THEN SysExit("PrimaryKeyViolationException", "null_or_empty")
             ELSE Ok

check_duplicates_and_raise(df, column_name) ==
    IF ~HasColumn(df, column_name) THEN SysExit("KeyError", "column")
    ELSE LET col == Column(df, column_name)
             duplicates == \E i, j \in 1..Len(col) : i < j /\ col[i] = col[j]
         IN  IF duplicates
             THEN SysExit("PrimaryKeyViolationException", "duplicates")
             ELSE Ok

(* The two calls every pipeline makes on its primary key, in sequence: an  *)
(* exception leaving the first call skips the second.                      *)
checkNonNullUnique(df, column_name) ==
    LET first == check_empty_or_null_and_raise(df, column_name)
    IN  IF first.exc # "none" THEN first
        ELSE check_duplicates_and_raise(df, column_name)

---------------------------------------------------------------------------
(* etl/data_quality_checks/data_quality.py                                 *)

TwoDigits(s, i) == 10 * DigitVal(s[i]) + DigitVal(s[i + 1])
AllDigits(s, idx) == \A i \in idx : IsDigit(s[i])

(* The texts pd.to_datetime turns into a Timestamp, for the fragment of    *)
(* its grammar the model's texts use: YYYY-MM-DD and YYYY-MM-DDThh:mm:ssZ. *)
IsIsoDate(s) ==
    /\ Len(s) = 10
    /\ s[5] = "-" /\ s[8] = "-"
    /\ AllDigits(s, {1, 2, 3, 4, 6, 7, 9, 10})
    /\ TwoDigits(s, 6) \in 1..12
    /\ TwoDigits(s, 9) \in 1..31

IsIsoTimestamp(s) ==
    /\ Len(s) = 20
    /\ IsIsoDate(SubSeq(s, 1, 10))
    /\ s[11] = "T" /\ s[14] = ":" /\ s[17] = ":" /\ s[20] = "Z"
    /\ AllDigits(s, {12, 13, 15, 16, 18, 19})
    /\ TwoDigits(s, 12) \in 0..23
    /\ TwoDigits(s, 15) \in 0..59
    /\ TwoDigits(s, 18) \in 0..59

(* A variant with a null-date exemption: a missing date passes.            *)
to_datetime_isnull_exempt(v) ==
    CASE v.k \in {"null", "nan"} -> FALSE
      [] v.k = "str" -> ~(IsIsoDate(v.s) \/ IsIsoTimestamp(v.s))
      [] OTHER -> FALSE

(* pd.to_datetime(x, errors="coerce") followed by isnull(): None stays      *)
(* None, an unparseable text becomes NaT, a number is read as an epoch     *)
(* offset.                                                                 *)
to_datetime_isnull(v) ==
    CASE v.k \in {"null", "nan"} -> TRUE
      [] v.k = "str" -> ~(IsIsoDate(v.s) \/ IsIsoTimestamp(v.s))
      [] OTHER -> FALSE

validate_date_column(df, column_name) ==
    IF ~HasColumn(df, column_name) THEN Raise("KeyError", "column")
    ELSE LET col == Column(df, column_name)
             invalid_dates == [i \in 1..Len(col) |-> to_datetime_isnull(col[i])]
         IN  IF \E i \in 1..Len(col) : invalid_dates[i]
             THEN Raise("ValueError", "invalid_dates")
             ELSE Ok

(* A variant that treats max_length as a maximum, as the parameter's name  *)
(* suggests: the "less than" test is left out.                             *)
validate_id_column_max(df, column_name, max_length) ==
    IF ~HasColumn(df, column_name) THEN Raise("KeyError", "column")
    ELSE LET col == Column(df, column_name)
             null_or_empty == \E i \in 1..Len(col) :
                                  IsNull(col[i]) \/ col[i] = EmptyStr
             too_long == \E i \in 1..Len(col) : Len(PyStr(col[i])) > max_length
         IN  IF null_or_empty THEN Raise("ValueError", "null_or_empty")
             ELSE IF too_long THEN Raise("ValueError", "exceeding_length")
             ELSE Ok

validate_id_column(df, column_name, max_length) ==
    IF ~HasColumn(df, column_name) THEN Raise("KeyError", "column")
    ELSE LET col == Column(df, column_name)
             null_or_empty == \E i \in 1..Len(col) :
                                  IsNull(col[i]) \/ col[i] = EmptyStr
             too_long == \E i \in 1..Len(col) : Len(PyStr(col[i])) > max_length
             too_short == \E i \in 1..Len(col) : Len(PyStr(col[i])) < max_length
         IN  IF null_or_empty THEN Raise("ValueError", "null_or_empty")
             ELSE IF too_long THEN Raise("ValueError", "exceeding_length")
             ELSE IF too_short THEN Raise("ValueError", "less_than_length")
             ELSE Ok

(* Texts pd.to_numeric accepts: an optional sign, digits, at most one      *)
(* decimal point, at least one digit.                                      *)
IsNumericText(s) ==
    LET body == IF Len(s) > 0 /\ s[1] = "-" THEN Tail(s) ELSE s
        dots == {i \in 1..Len(body) : body[i] = "."}
    IN  /\ Cardinality(dots) <= 1
        /\ \E i \in 1..Len(body) : IsDigit(body[i])
        /\ \A i \in 1..Len(body) : IsDigit(body[i]) \/ body[i] = "."

(* pd.to_numeric(x, errors="coerce").notnull() on one cell.                *)
to_numeric_notnull(v) ==
    CASE v.k = "num" -> TRUE
      [] v.k = "bool" -> TRUE
      [] v.k = "str" -> IsNumericText(v.s)
      [] OTHER -> FALSE

(* A variant whose result is dropped instead of assigned back.             *)
fillna_dropped(df, column_name, value) == df

(* df[column_name].fillna(0), assigned back into the frame.                *)
fillna(df, column_name, value) ==
    Frame(df.columns,
          [i \in 1..Len(df.rows) |->
              IF IsNull(df.rows[i][column_name])
              THEN [df.rows[i] EXCEPT ![column_name] = value]
              ELSE df.rows[i]])

(* Series.isin([True, False, 1, 0]) on one cell: membership by value, so   *)
(* the numbers 1 and 0 match as the booleans do.                           *)
isin_boolean(v) ==
    CASE v.k = "bool" -> TRUE
      [] v.k = "num" -> v.n \in {0, 1}
      [] OTHER -> FALSE

(* Returns the outcome of the call and the frame as the call leaves it.    *)
validate_column_types(df, column_name, expected_type) ==
    IF ~HasColumn(df, column_name)
    THEN [out |-> Raise("KeyError", "column"), df |-> df]
    ELSE IF expected_type = "float"
    THEN LET filled == fillna(df, column_name, Num(0))
             col == Column(filled, column_name)
         IN  IF ~(\A i \in 1..Len(col) : to_numeric_notnull(col[i]))
             THEN [out |-> Raise("ValueError", "non_float"), df |-> filled]
             ELSE [out |-> Ok, df |-> filled]
    ELSE IF expected_type = "boolean"
    THEN LET col == Column(df, column_name)
         IN  IF ~(\A i \in 1..Len(col) : isin_boolean(col[i]))
             THEN [out |-> Raise("ValueError", "non_boolean"), df |-> df]
             ELSE [out |-> Ok, df |-> df]
    ELSE [out |-> Ok, df |-> df]

(* schema_definitions of column_mappings.yml: per table, the ordered       *)
(* column definitions.  The types follow the values of the expected frames *)
(* of test_etl.py; identifiers are declared with length SchemaIdLength.    *)
SchemaIdLength == 2

ColumnDef(name, type) == [name |-> name, type |-> type]
IdDef(name) == [name |-> name, type |-> "varchar", length |-> SchemaIdLength]

schema_definitions(table_name) ==
    CASE table_name = "clients" ->
            <<IdDef("client_id"), ColumnDef("name", "varchar"),
              ColumnDef("contract_start_date", "date"),
              ColumnDef("contract_end_date", "date"),
              ColumnDef("sonar_dates", "array"),
              ColumnDef("suppliers", "array")>>
      [] table_name = "suppliers" ->
            <<IdDef("supplier_id"), ColumnDef("name", "varchar"),
              ColumnDef("country", "varchar"),
              ColumnDef("page_status", "varchar"),
              ColumnDef("login", "boolean"),
              ColumnDef("automatic_priority", "float"),
              ColumnDef("alias", "varchar"), ColumnDef("date", "date"),
              ColumnDef("priority", "float"),
              ColumnDef("currency", "varchar")>>
      [] table_name = "sonar_runs" ->
            <<IdDef("sonar_run_id"), IdDef("client_id"),
              ColumnDef("countries", "array"),
              ColumnDef("supplier_ids", "array"),
              ColumnDef("client_part_ids", "array"),
              ColumnDef("status", "varchar"),
              ColumnDef("category", "varchar"),
              ColumnDef("sonar_run_time", "timestamp"),
              ColumnDef("sonar_run_date", "date")>>
      [] table_name = "sonar_results" ->
            <<IdDef("sonar_result_id"), IdDef("supplier_id"),
              IdDef("sonar_run_id"), IdDef("part_id"),
              ColumnDef("date_sonar", "date"), ColumnDef("date_found", "date"),
              ColumnDef("price_norm", "float"),
              ColumnDef("currency", "varchar"), ColumnDef("unit", "varchar"),
              ColumnDef("country", "varchar"), ColumnDef("status", "varchar")>>
      [] OTHER -> << >>

(* column_def["type"].lower(), over the spellings used in this module.     *)
lower(column_type) ==
    CASE column_type = "DATE" -> "date"
      [] column_type = "Float" -> "float"
      [] OTHER -> column_type

(* "date" in column_type                                                   *)
ContainsDate(column_type) == column_type \in {"date", "datetime"}

(* One validator call made by the loop, as its log line names it.          *)
Check(fn, column_name) == [fn |-> fn, column |-> column_name]

(* The checks of one column definition, in the order of the three ifs; the *)
(* first exception leaves the loop.  calls lists the validators entered.   *)
check_column(df, column_def) ==
    LET column_name == column_def.name
        column_type == lower(column_def.type)
        is_date == ContainsDate(column_type)
        is_id == column_type = "varchar" /\ "length" \in DOMAIN column_def
        is_typed == column_type \in {"float", "boolean"}
        dates == IF is_date THEN validate_date_column(df, column_name) ELSE Ok
        ids == IF is_id
               THEN validate_id_column(df, column_name, column_def.length)
               ELSE Ok
        date_call == IF is_date
                     THEN <<Check("validate_date_column", column_name)>>
                     ELSE << >>
        id_call == IF is_id
                   THEN <<Check("validate_id_column", column_name)>>
                   ELSE << >>
    IN  IF dates.exc # "none"
        THEN [out |-> dates, df |-> df, calls |-> date_call]
        ELSE IF ids.exc # "none"
        THEN [out |-> ids, df |-> df, calls |-> date_call \o id_call]
        ELSE IF is_typed
        THEN LET r == validate_column_types(df, column_name, column_type)
             IN  [out |-> r.out, df |-> r.df,
                  calls |-> date_call \o id_call
                            \o <<Check("validate_column_types", column_name)>>]
        ELSE [out |-> Ok, df |-> df, calls |-> date_call \o id_call]

(* The loop after one column definition: its exception leaves the loop,   *)
(* otherwise the remaining definitions see the frame as it left it.        *)
RECURSIVE check_columns(_, _), check_columns_backwards(_, _)
check_rest(first, rest) ==
    IF first.out.exc # "none" THEN first
    ELSE [rest EXCEPT !.calls = first.calls \o @]

(* A variant that visits the column definitions last to first.             *)
check_columns_backwards(df, schema) ==
    IF schema = << >> THEN [out |-> Ok, df |-> df, calls |-> << >>]
    ELSE CHOOSE r \in
             {check_rest(first,
                         IF first.out.exc # "none" THEN first
                         ELSE check_columns_backwards(
                                  first.df, SubSeq(schema, 1, Len(schema) - 1))) :
                 first \in {check_column(df, schema[Len(schema)])}} : TRUE

(* for column_def in schema: each definition is checked once, on the frame *)
(* the definitions before it left.                                         *)
check_columns(df, schema) ==
    IF schema = << >> THEN [out |-> Ok, df |-> df, calls |-> << >>]
    ELSE CHOOSE r \in
             {check_rest(first,
                         IF first.out.exc # "none" THEN first
                         ELSE check_columns(first.df, Tail(schema))) :
                 first \in {check_column(df, Head(schema))}} : TRUE

(* The body of check_data_quality_dataframe once the schema of the table   *)
(* has been looked up; << >> stands for a missing (or empty) entry.        *)
check_schema(df, schema) ==
    IF schema = << >>
    THEN [out |-> Raise("ValueError", "no schema"), df |-> df, calls |-> << >>]
    ELSE check_columns(df, schema)

check_data_quality_dataframe(df, table_name) ==
    check_schema(df, schema_definitions(table_name))

---------------------------------------------------------------------------
(* etl/transformation.py                                                   *)

(* column_mappings.yml is read at class-definition time; the rename tables *)
(* and select lists are the ones the inputs and expected frames of         *)
(* test_etl.py determine.                                                  *)
Rename(case) ==
    CASE case = "clients" ->
            [from |-> <<"_id.$oid", "contract_start.$date", "contract_end.$date">>,
             to |-> <<"client_id", "contract_start_date", "contract_end_date">>]
      [] case = "suppliers" ->
            [from |-> <<"_id.$oid">>, to |-> <<"supplier_id">>]
      [] case = "sonar_runs" ->
            [from |-> <<"_id.$oid", "client_id.$oid", "time.$date", "date.$date">>,
             to |-> <<"sonar_run_id", "client_id", "sonar_run_time",
                      "sonar_run_date">>]
      [] case = "sonar_results" ->
            [from |-> <<"_id.$oid", "supplier_id.$oid", "sonar_run_id.$oid",
                        "part_id.$oid", "date_sonar.$date", "date_found.$date">>,
             to |-> <<"sonar_result_id", "supplier_id", "sonar_run_id",
                      "part_id", "date_sonar", "date_found">>]
      [] OTHER -> [from |-> << >>, to |-> << >>]

Select(case) ==
    CASE case = "clients" ->
            <<"client_id", "name", "contract_start_date", "contract_end_date",
              "sonar_dates", "suppliers">>
      [] case = "suppliers" ->
            <<"supplier_id", "name", "country", "page_status", "login",
              "automatic_priority", "alias", "date", "priority", "currency">>
      [] case = "supplier_group" ->
            <<"client_id", "group_name", "supplier_id">>
      [] case = "sonar_runs" ->
            <<"sonar_run_id", "client_id", "countries", "supplier_ids",
              "client_part_ids", "status", "category", "sonar_run_time",
              "sonar_run_date">>
      [] case = "sonar_results" ->
            <<"sonar_result_id", "supplier_id", "sonar_run_id", "part_id",
              "date_sonar", "date_found", "price_norm", "currency", "unit",
              "country", "status">>

(* A variant that gives the first two date fields each other's name.      *)
Renamed_swapped(m, c) ==
    LET dates == SelectSeq(m.from, LAMBDA f : f \in {"contract_start.$date",
                                                     "contract_end.$date",
                                                     "time.$date", "date.$date"})
        other == IF Len(dates) = 2 /\ c = dates[1] THEN dates[2]
                 ELSE IF Len(dates) = 2 /\ c = dates[2] THEN dates[1]
                 ELSE c
    IN  IF \E i \in 1..Len(m.from) : m.from[i] = other
        THEN m.to[CHOOSE i \in 1..Len(m.from) : m.from[i] = other]
        ELSE other

(* df.rename(columns=mappings, inplace=True)                               *)
Renamed(m, c) ==
    IF \E i \in 1..Len(m.from) : m.from[i] = c
    THEN m.to[CHOOSE i \in 1..Len(m.from) : m.from[i] = c]
    ELSE c

rename_columns(df, case) ==
    LET m == Rename(case)
        old == Range(df.columns)
        origin(n) == CHOOSE c \in old : Renamed(m, c) = n
    IN  Frame([i \in 1..Len(df.columns) |-> Renamed(m, df.columns[i])],
              [i \in 1..Len(df.rows) |->
                  [n \in {Renamed(m, c) : c \in old} |-> df.rows[i][origin(n)]]])

(* A variant that puts each new row in front of the rows collected so far. *)
RECURSIVE group_rows_prepend(_, _, _)
group_rows_prepend(client_id, group_name, suppliers) ==
    IF suppliers = << >> THEN [out |-> Ok, rows |-> << >>]
    ELSE IF ~HasKey(Head(suppliers), OidKey)
    THEN [out |-> Raise("KeyError", "$oid"), rows |-> << >>]
    ELSE LET rest == group_rows_prepend(client_id, group_name, Tail(suppliers))
             row == [client_id |-> client_id,
                     group_name |-> Str(group_name),
                     supplier_id |-> Get(Head(suppliers), OidKey)]
         IN  [out |-> rest.out, rows |-> rest.rows \o <<row>>]

(* The rows one group contributes: one per member, in list order.  A       *)
(* member without "$oid" raises KeyError.                                  *)
RECURSIVE group_rows(_, _, _)
group_rows(client_id, group_name, suppliers) ==
    IF suppliers = << >> THEN [out |-> Ok, rows |-> << >>]
    ELSE IF ~HasKey(Head(suppliers), OidKey)
    THEN [out |-> Raise("KeyError", "$oid"), rows |-> << >>]
    ELSE LET rest == group_rows(client_id, group_name, Tail(suppliers))
             row == [client_id |-> client_id,
                     group_name |-> Str(group_name),
                     supplier_id |-> Get(Head(suppliers), OidKey)]
         IN  [out |-> rest.out, rows |-> <<row>> \o rest.rows]

(* for group_name, suppliers in supplier_groups.items()                    *)
RECURSIVE items_rows(_, _)
items_rows(client_id, pairs) ==
    IF pairs = << >> THEN [out |-> Ok, rows |-> << >>]
    ELSE LET first == IF Head(pairs)[2].k = "list"
                      THEN group_rows(client_id, Head(pairs)[1],
                                      Head(pairs)[2].items)
                      ELSE [out |-> Raise("TypeError", "not iterable"),
                            rows |-> << >>]
         IN  IF first.out.exc # "none" THEN first
             ELSE LET rest == items_rows(client_id, Tail(pairs))
                  IN  [out |-> rest.out, rows |-> first.rows \o rest.rows]

(* for _, row in df[["client_id", "supplier_groups"]].iterrows()           *)
RECURSIVE iterrows(_)
iterrows(rows) ==
    IF rows = << >> THEN [out |-> Ok, rows |-> << >>]
    ELSE LET supplier_groups == Head(rows)["supplier_groups"]
             first == IF ~Truthy(supplier_groups)
                      THEN [out |-> Ok, rows |-> << >>]
                      ELSE IF supplier_groups.k # "dict"
                      THEN [out |-> Raise("AttributeError", "items"),
                            rows |-> << >>]
                      ELSE items_rows(Head(rows)["client_id"],
                                      supplier_groups.pairs)
         IN  IF first.out.exc # "none" THEN first
             ELSE LET rest == iterrows(Tail(rows))
                  IN  [out |-> rest.out, rows |-> first.rows \o rest.rows]

(* lambda x: x['$oid'] if isinstance(x, dict) and '$oid' in x else None    *)
unwrap_oid(x) == IF HasKey(x, OidKey) THEN Get(x, OidKey) ELSE Null

(* No validator is called in this pipeline.  pd.DataFrame([]) has no       *)
(* columns, so df['client_id'] raises KeyError when no row was appended.   *)
transform_supplier_group(data) ==
    LET df == rename_columns(DataFrameOf(data), "supplier_group")
    IN  IF ~(HasColumn(df, "client_id") /\ HasColumn(df, "supplier_groups"))
        THEN [out |-> Raise("KeyError", "not in index"), df |-> NoFrame]
        ELSE LET expanded == iterrows(df.rows)
             IN  IF expanded.out.exc # "none"
                 THEN [out |-> expanded.out, df |-> NoFrame]
                 ELSE IF expanded.rows = << >>
                 THEN [out |-> Raise("KeyError", "client_id"), df |-> NoFrame]
                 ELSE [out |-> Ok,
                       df |-> Frame(<<"client_id", "group_name", "supplier_id">>,
                                    [i \in 1..Len(expanded.rows) |->
                                        [expanded.rows[i] EXCEPT
                                            !["client_id"] = unwrap_oid(@)]])]

(* A variant written as the lambda of transform_sonar_runs is: every item  *)
(* of a list is looked up under "$oid", a value that is no list gives [].  *)
extract_values_as_lambda(value) ==
    IF value.k # "list" THEN [out |-> Ok, value |-> List(<< >>)]
    ELSE IF \A i \in 1..Len(value.items) : HasKey(value.items[i], OidKey)
    THEN [out |-> Ok,
          value |-> List([i \in 1..Len(value.items) |->
                             Get(value.items[i], OidKey)])]
    ELSE [out |-> Raise("KeyError", "item[key]"), value |-> value]

(* extract_values of process_dict_columns: a list of dicts that share one  *)
(* single key becomes the list of the values under that key.  The key set  *)
(* is the union over the items, so an empty dict among dicts that have the *)
(* key passes the test and then fails the lookup with KeyError.            *)
extract_values(value) ==
    IF value.k = "list"
       /\ \A i \in 1..Len(value.items) : value.items[i].k = "dict"
    THEN LET keys == UNION {{value.items[i].pairs[j][1] :
                               j \in 1..Len(value.items[i].pairs)} :
                            i \in 1..Len(value.items)}
         IN  IF Cardinality(keys) = 1
             THEN LET key == CHOOSE key \in keys : TRUE
                  IN  IF \A i \in 1..Len(value.items) : HasKey(value.items[i], key)
                      THEN [out |-> Ok,
                            value |-> List([i \in 1..Len(value.items) |->
                                               Get(value.items[i], key)])]
                      ELSE [out |-> Raise("KeyError", "item[key]"),
                            value |-> value]
             ELSE [out |-> Ok, value |-> value]
    ELSE [out |-> Ok, value |-> value]

(* df[column_name] = df[column_name].apply(extract_values)                 *)
apply_extract_values(df, column_name) ==
    IF ~HasColumn(df, column_name)
    THEN [out |-> Raise("KeyError", "column"), df |-> df]
    ELSE IF \E i \in 1..Len(df.rows) :
                extract_values(df.rows[i][column_name]).out.exc # "none"
    THEN [out |-> Raise("KeyError", "item[key]"), df |-> df]
    ELSE [out |-> Ok,
          df |-> Frame(df.columns,
                       [i \in 1..Len(df.rows) |->
                           [df.rows[i] EXCEPT ![column_name] =
                               extract_values(@).value]])]

RECURSIVE process_dict_columns(_, _)
process_dict_columns(df, column_names) ==
    IF column_names = << >> THEN [out |-> Ok, df |-> df]
    ELSE LET first == apply_extract_values(df, Head(column_names))
         IN  IF first.out.exc # "none" THEN first
             ELSE process_dict_columns(first.df, Tail(column_names))

(* lambda x: [item["$oid"] for item in x] if isinstance(x, list) else []   *)
oid_list(x) ==
    IF x.k # "list" THEN [out |-> Ok, value |-> List(<< >>)]
    ELSE IF \A i \in 1..Len(x.items) : HasKey(x.items[i], OidKey)
    THEN [out |-> Ok,
          value |-> List([i \in 1..Len(x.items) |-> Get(x.items[i], OidKey)])]
    ELSE [out |-> Raise("KeyError", "$oid"), value |-> x]

apply_oid_list(df, column_name) ==
    IF ~HasColumn(df, column_name)
    THEN [out |-> Raise("KeyError", "column"), df |-> df]
    ELSE IF \E i \in 1..Len(df.rows) :
                oid_list(df.rows[i][column_name]).out.exc # "none"
    THEN [out |-> Raise("KeyError", "$oid"), df |-> df]
    ELSE [out |-> Ok,
          df |-> Frame(df.columns,
                       [i \in 1..Len(df.rows) |->
                           [df.rows[i] EXCEPT ![column_name] = oid_list(@).value]])]

(* A variant that checks the select list and keeps the frame as it is.     *)
select_unprojected(df, select_columns) ==
    IF \E i \in 1..Len(select_columns) : ~HasColumn(df, select_columns[i])
    THEN [out |-> Raise("KeyError", "not in index"), df |-> NoFrame]
    ELSE [out |-> Ok, df |-> df]

(* df[eval(select_columns)]: the columns of the select list, in its order; *)
(* pandas raises KeyError naming the labels that are not columns.          *)
select(df, select_columns) ==
    IF \E i \in 1..Len(select_columns) : ~HasColumn(df, select_columns[i])
    THEN [out |-> Raise("KeyError", "not in index"), df |-> NoFrame]
    ELSE [out |-> Ok,
          df |-> Frame(select_columns,
                       [i \in 1..Len(df.rows) |->
                           [c \in Range(select_columns) |-> df.rows[i][c]]])]

PrimaryKey(case) ==
    CASE case = "clients" -> "client_id"
      [] case = "suppliers" -> "supplier_id"
      [] case = "sonar_runs" -> "sonar_run_id"
      [] case = "sonar_results" -> "sonar_result_id"

(* A variant whose handler catches every exception of the try block, the  *)
(* quality check's ValueError included.                                    *)
validate_selected_catching_all(selected_df, case) ==
    LET pk == checkNonNullUnique(selected_df, PrimaryKey(case))
        passed == <<"no null or empty values", "no duplicate values">>
    IN  IF pk.exc = "SystemExit"
        THEN [out |-> Ok, df |-> selected_df,
              log |-> (IF pk.rule = "duplicates" THEN <<passed[1]>> ELSE << >>)
                      \o <<"Validation failed", "System exited">>]
        ELSE LET dq == check_data_quality_dataframe(selected_df, case)
             IN  IF dq.out.exc # "none"
                 THEN [out |-> Ok, df |-> selected_df,
                       log |-> passed \o <<"Validation failed">>]
                 ELSE [out |-> Ok, df |-> dq.df,
                       log |-> passed \o <<"All validations passed">>]

(* The try block the four pipelines share.  The validators leave by        *)
(* sys.exit(1); "except SystemExit" prints and falls through to the        *)
(* return, so the quality check is skipped and the frame is returned.  An  *)
(* exception of check_data_quality_dataframe is no SystemExit and leaves   *)
(* the pipeline.  The log lists the validations that ran to completion.    *)
validate_selected(selected_df, case) ==
    LET pk == checkNonNullUnique(selected_df, PrimaryKey(case))
        passed == <<"no null or empty values", "no duplicate values">>
    IN  IF pk.exc = "SystemExit"
        THEN [out |-> Ok, df |-> selected_df,
              log |-> (IF pk.rule = "duplicates" THEN <<passed[1]>> ELSE << >>)
                      \o <<"Validation failed", "System exited">>]
        ELSE LET dq == check_data_quality_dataframe(selected_df, case)
             IN  IF dq.out.exc # "none"
                 THEN [out |-> dq.out, df |-> NoFrame,
                       log |-> passed \o <<"Validation failed">>]
                 ELSE [out |-> Ok, df |-> dq.df,
                       log |-> passed \o <<"All validations passed">>]

Raised(r) == [out |-> r.out, df |-> NoFrame, log |-> << >>]

(* rename, select and validate: the common tail of the four pipelines.     *)
rename_select_validate(df, case) ==
    LET selected == select(rename_columns(df, case), Select(case))
    IN  IF selected.out.exc # "none" THEN Raised(selected)
        ELSE validate_selected(selected.df, case)

transform_clients(data) ==
    LET renamed == rename_columns(DataFrameOf(data), "clients")
        processed == process_dict_columns(renamed, <<"suppliers", "sonar_dates">>)
    IN  IF processed.out.exc # "none" THEN Raised(processed)
        ELSE LET selected == select(processed.df, Select("clients"))
             IN  IF selected.out.exc # "none" THEN Raised(selected)
                 ELSE validate_selected(selected.df, "clients")

transform_suppliers(data) == rename_select_validate(DataFrameOf(data), "suppliers")

transform_sonar_runs(data) ==
    LET supplier_ids == apply_oid_list(DataFrameOf(data), "supplier_ids")
    IN  IF supplier_ids.out.exc # "none" THEN Raised(supplier_ids)
        ELSE LET client_part_ids == apply_oid_list(supplier_ids.df, "client_part_ids")
             IN  IF client_part_ids.out.exc # "none" THEN Raised(client_part_ids)
                 ELSE rename_select_validate(client_part_ids.df, "sonar_runs")

transform_sonar_results(data) ==
    rename_select_validate(DataFrameOf(data), "sonar_results")

(* A variant whose dispatch ends in a default pipeline.                     *)
transform_default(data, case) ==
    CASE case = "supplier_group" ->
            LET r == transform_supplier_group(data)
            IN  [out |-> r.out, df |-> r.df, log |-> << >>]
      [] case = "suppliers" -> transform_suppliers(data)
      [] case = "sonar_runs" -> transform_sonar_runs(data)
      [] case = "sonar_results" -> transform_sonar_results(data)
      [] OTHER -> transform_clients(data)

transform(data, case) ==
    CASE case = "clients" -> transform_clients(data)
      [] case = "supplier_group" ->
            LET r == transform_supplier_group(data)
            IN  [out |-> r.out, df |-> r.df, log |-> << >>]
      [] case = "suppliers" -> transform_suppliers(data)
      [] case = "sonar_runs" -> transform_sonar_runs(data)
      [] case = "sonar_results" -> transform_sonar_results(data)
      [] OTHER -> [out |-> Raise("ValueError", "Unknown transformation case"),
                   df |-> NoFrame, log |-> << >>]

---------------------------------------------------------------------------
(* etl/load_data.py and data_pipeline_mongodb_to_postgres.py               *)

(* clients_task >> supplier_group_task >> suppliers_task >> ...            *)
Collections ==
    <<"clients", "supplier_group", "suppliers", "sonar_runs", "sonar_results">>
CollectionSet == Range(Collections)
IndexOf(c) == CHOOSE i \in 1..Len(Collections) : Collections[i] = c
(* A variant in which the tasks are declared and never chained.            *)
Upstream_unchained(c) == {}

Upstream(c) == IF IndexOf(c) = 1 THEN {} ELSE {Collections[IndexOf(c) - 1]}

(* default_args["retries"]                                                 *)
Retries == 1

(* config["output_column_names"][collection_name]: the columns the table   *)
(* of the collection is loaded with.                                       *)
output_column_names(c) == Select(c)

(* The documents the input files may hold.                                 *)
IdA0 == Str(<<"A", "0">>)
IdA1 == Str(<<"A", "1">>)
IdA2 == Str(<<"A", "2">>)

ClientsDoc(id, start) ==
    ("_id.$oid" :> id) @@ ("name" :> TxtA)
    @@ ("contract_start.$date" :> start) @@ ("contract_end.$date" :> TxtDate)
    @@ ("sonar_dates" :> List(<<TxtDate>>))
    @@ ("suppliers" :> List(<<Oid(IdA1), Oid(IdA2)>>))

SuppliersDoc(id, login, priority) ==
    ("_id.$oid" :> id) @@ ("name" :> TxtA) @@ ("country" :> TxtB)
    @@ ("page_status" :> TxtA) @@ ("login" :> login)
    @@ ("automatic_priority" :> Num(1)) @@ ("alias" :> TxtAB)
    @@ ("date" :> TxtDate) @@ ("priority" :> priority) @@ ("currency" :> TxtABC)

SupplierGroupDoc(groups) ==
    ("client_id" :> Oid(TxtC1)) @@ ("supplier_groups" :> groups)

SonarRunsDoc(id) ==
    ("_id.$oid" :> id) @@ ("client_id.$oid" :> IdA1)
    @@ ("countries" :> List(<<TxtA, TxtB>>))
    @@ ("supplier_ids" :> List(<<Oid(Txt101), Oid(Txt102)>>))
    @@ ("client_part_ids" :> List(<<Oid(Txt101)>>))
    @@ ("status" :> TxtA) @@ ("category" :> TxtB)
    @@ ("time.$date" :> TxtTimestamp) @@ ("date.$date" :> TxtDate)

SonarResultsDoc(id, found) ==
    ("_id.$oid" :> id) @@ ("supplier_id.$oid" :> IdA1)
    @@ ("sonar_run_id.$oid" :> IdA1) @@ ("part_id.$oid" :> IdA2)
    @@ ("date_sonar.$date" :> TxtDate) @@ ("date_found.$date" :> found)
    @@ ("price_norm" :> Null) @@ ("currency" :> TxtABC) @@ ("unit" :> TxtA)
    @@ ("country" :> TxtB) @@ ("status" :> TxtA)

Inputs(c) ==
    CASE c = "clients" ->
            {<<ClientsDoc(IdA1, TxtDate), ClientsDoc(IdA2, TxtDate)>>,
             <<ClientsDoc(IdA1, TxtDate), ClientsDoc(IdA1, TxtTimestamp)>>,
             <<ClientsDoc(Null, TxtDate)>>,
             <<ClientsDoc(IdA1, TxtNotADate)>>}
      [] c = "supplier_group" ->
            {<<SupplierGroupDoc(Dict(<< <<G1, List(<<Oid(Txt101), Oid(Txt102)>>)>>,
                                        <<G2, List(<<Oid(Txt103)>>)>> >>))>>,
             <<SupplierGroupDoc(Dict(<< >>))>>}
      [] c = "suppliers" ->
            {<<SuppliersDoc(IdA1, Bool(TRUE), Num(2))>>,
             <<SuppliersDoc(IdA1, Bool(TRUE), Null),
               SuppliersDoc(IdA1, Bool(FALSE), Num(2))>>,
             <<SuppliersDoc(IdA1, TxtAbc, Num(2))>>}
      [] c = "sonar_runs" ->
            {<<SonarRunsDoc(IdA1), SonarRunsDoc(IdA2)>>,
             <<SonarRunsDoc(IdA1), SonarRunsDoc(IdA1)>>}
      [] c = "sonar_results" ->
            {<<SonarResultsDoc(IdA1, TxtDate)>>,
             <<SonarResultsDoc(IdA1, EmptyStr)>>}

(* A call made outside the DAG: its arguments and what it produced.        *)
Call(fn, data, df, column_name, max_length, expected_type) ==
    [fn |-> fn, data |-> data, df |-> df, column_name |-> column_name,
     max_length |-> max_length, expected_type |-> expected_type]

NoCall == Call("none", << >>, NoFrame, "X", 0, "none")
NoResult == [fn |-> "none", out |-> Ok, df |-> NoFrame]

(* TransformationFactory.transform on the documents a task can be given,  *)
(* tabulated: transform is a function of its arguments alone.              *)
Transformed ==
    [c \in CollectionSet |-> [data \in Inputs(c) |-> transform(data, c)]]

(* What an earlier, successful run of the DAG left in each table.          *)
PreviousData(c) ==
    CASE c = "clients" -> <<ClientsDoc(IdA0, TxtDate)>>
      [] c = "supplier_group" ->
            <<SupplierGroupDoc(Dict(<< <<G1, List(<<Oid(Txt101)>>)>> >>))>>
      [] c = "suppliers" -> <<SuppliersDoc(IdA0, Bool(TRUE), Num(2))>>
      [] c = "sonar_runs" -> <<SonarRunsDoc(IdA0)>>
      [] c = "sonar_results" -> <<SonarResultsDoc(IdA0, TxtDate)>>
PreviousRows(c) == transform(PreviousData(c), c).df.rows

IdleRun == [pc |-> "idle", data |-> << >>, df |-> NoFrame, before |-> << >>,
            log |-> << >>, missing |-> << >>]

InitDag ==
    /\ task = [c \in CollectionSet |-> "none"]
    /\ tries = [c \in CollectionSet |-> 0]
    /\ run = [c \in CollectionSet |-> IdleRun]
    /\ db = [c \in CollectionSet |-> PreviousRows(c)]

Init == InitDag /\ input = NoCall /\ result = NoResult

(* run_etl wraps every exception in RuntimeError; the task instance fails  *)
(* and Airflow schedules it again while tries are left.                    *)
Raises(c, message) ==
    /\ task' = [task EXCEPT ![c] = IF tries[c] <= Retries THEN "up_for_retry"
                                                          ELSE "failed"]
    /\ run' = [run EXCEPT ![c].pc = "raised", ![c].log = Append(@, message)]

(* The scheduler starts a task whose upstream task succeeded, in a new     *)
(* process: the locals of the calls that returned before are gone.         *)
StartTask(c) ==
    /\ task[c] \in {"none", "up_for_retry"}
    /\ \A u \in Upstream(c) : task[u] = "success"
    /\ task' = [task EXCEPT ![c] = "running"]
    /\ tries' = [tries EXCEPT ![c] = @ + 1]
    /\ run' = [d \in CollectionSet |->
                  IF d = c THEN [IdleRun EXCEPT !.pc = "extract", !.before = db[c]]
                  ELSE [IdleRun EXCEPT !.pc = run[d].pc]]
    /\ UNCHANGED <<db, callVars>>

(* A task whose upstream task did not succeed is never run.                *)
UpstreamFailed(c) ==
    /\ task[c] = "none"
    /\ \E u \in Upstream(c) : task[u] \in {"failed", "upstream_failed"}
    /\ task' = [task EXCEPT ![c] = "upstream_failed"]
    /\ UNCHANGED <<tries, run, db, callVars>>

(* run_etl up to extractor.read_data: configuration, engine, CREATE TABLE  *)
(* IF NOT EXISTS, and the documents of the input file.                     *)
Extract(c) ==
    /\ task[c] = "running" /\ run[c].pc = "extract"
    /\ \E data \in Inputs(c) :
           run' = [run EXCEPT ![c].pc = "transform", ![c].data = data]
    /\ UNCHANGED <<task, tries, db, callVars>>

ExtractRaises(c) ==
    /\ task[c] = "running" /\ run[c].pc = "extract"
    /\ Raises(c, "Error reading or processing data")
    /\ UNCHANGED <<tries, db, callVars>>

(* transformed_df = TransformationFactory.transform(data, case)            *)
Transform(c) ==
    /\ task[c] = "running" /\ run[c].pc = "transform"
    /\ LET r == Transformed[c][run[c].data]
       IN  /\ r.out.exc = "none"
           /\ run' = [run EXCEPT ![c].pc = "load", ![c].df = r.df,
                                 ![c].log = @ \o r.log \o <<"transformed">>]
    /\ UNCHANGED <<task, tries, db, callVars>>

TransformRaises(c) ==
    /\ task[c] = "running" /\ run[c].pc = "transform"
    /\ LET r == Transformed[c][run[c].data]
       IN  /\ r.out.exc # "none"
           /\ task' = [task EXCEPT ![c] = IF tries[c] <= Retries
                                          THEN "up_for_retry" ELSE "failed"]
           /\ run' = [run EXCEPT ![c].pc = "raised",
                                 ![c].log = @ \o r.log \o <<r.out.exc>>]
    /\ UNCHANGED <<tries, db, callVars>>

(* A variant that finds every required column present.                     *)
missing_columns_unchecked(df, required_columns) == << >>

missing_columns(df, required_columns) ==
    SelectSeq(required_columns, LAMBDA col : ~HasColumn(df, col))

(* validate_and_insert_data up to the TRUNCATE, which its own connection   *)
(* executes before to_sql opens another.                                   *)
Truncate(c) ==
    /\ task[c] = "running" /\ run[c].pc = "load"
    /\ missing_columns(run[c].df, output_column_names(c)) = << >>
    /\ db' = [db EXCEPT ![c] = << >>]
    /\ run' = [run EXCEPT ![c].pc = "insert", ![c].log = Append(@, "TRUNCATE")]
    /\ UNCHANGED <<task, tries, callVars>>

(* The required-column check raises ValueError with the list of the        *)
(* missing columns, or the TRUNCATE raises: nothing is written.            *)
LoadRaises(c) ==
    /\ task[c] = "running" /\ run[c].pc = "load"
    /\ LET missing == missing_columns(run[c].df, output_column_names(c))
       IN  /\ task' = [task EXCEPT ![c] = IF tries[c] <= Retries
                                          THEN "up_for_retry" ELSE "failed"]
           /\ run' = [run EXCEPT ![c].pc = "raised",
                                 ![c].missing = missing,
                                 ![c].log = Append(@, IF missing # << >>
                                                      THEN "Missing columns"
                                                      ELSE "Error inserting data")]
    /\ UNCHANGED <<tries, db, callVars>>

(* df.to_sql(table_name, engine, if_exists="append"): one transaction.     *)
Insert(c) ==
    /\ task[c] = "running" /\ run[c].pc = "insert"
    /\ db' = [db EXCEPT ![c] = run[c].df.rows]
    /\ run' = [run EXCEPT ![c].pc = "done", ![c].log = Append(@, "INSERT")]
    /\ task' = [task EXCEPT ![c] = "success"]
    /\ UNCHANGED <<tries, callVars>>

InsertRaises(c) ==
    /\ task[c] = "running" /\ run[c].pc = "insert"
    /\ Raises(c, "Error inserting data")
    /\ UNCHANGED <<tries, db, callVars>>

Next ==
    \E c \in CollectionSet :
        \/ StartTask(c)
        \/ UpstreamFailed(c)
        \/ Extract(c)
        \/ ExtractRaises(c)
        \/ Transform(c)
        \/ TransformRaises(c)
        \/ Truncate(c)
        \/ LoadRaises(c)
        \/ Insert(c)
        \/ InsertRaises(c)

Spec == Init /\ [][Next]_vars

---------------------------------------------------------------------------
(* Claims about a run of the DAG, checked under Spec.                      *)

Logged(c, message) == message \in Range(run[c].log)
TransformReturned(c) == run[c].pc \in {"load", "insert", "done"}

DuplicateIds(data) ==
    \E i, j \in 1..Len(data) :
        /\ i < j
        /\ ~IsNull(data[i]["_id.$oid"])
        /\ data[i]["_id.$oid"] = data[j]["_id.$oid"]

(* C1: whenever the clients documents contain the same client_id in two    *)
(* rows, the run fails with a primary-key violation and the Loader         *)
(* (truncate and insert) is never invoked for that run.                    *)
C1_DuplicateClientIdNeverReachesLoader ==
    DuplicateIds(run["clients"].data) =>
        /\ ~TransformReturned("clients")
        /\ ~Logged("clients", "TRUNCATE")
        /\ ~Logged("clients", "INSERT")

ValidationFailed(c) ==
    Logged(c, "Validation failed") \/ Logged(c, "Missing columns")

(* C2: in every run of a collection all validation completes before any    *)
(* write: if any validation fails, no TRUNCATE and no INSERT is executed   *)
(* on the collection's table, whose rows stay as they were before the run. *)
C2_NoWriteAfterFailedValidation ==
    \A c \in CollectionSet :
        ValidationFailed(c) =>
            /\ ~Logged(c, "TRUNCATE")
            /\ ~Logged(c, "INSERT")
            /\ db[c] = run[c].before

(* C3: replacing a table's rows is atomic: in every state of               *)
(* validate_and_insert_data, the state after a failed insert included, the *)
(* table holds the complete previous row set or the complete new one.      *)
C3_ReplaceIsAtomic ==
    \A c \in CollectionSet :
        run[c].pc \in {"load", "insert", "done", "raised"} =>
            db[c] \in {run[c].before, run[c].df.rows}

IsSubsequence(sub, log) ==
    \E f \in [1..Len(sub) -> 1..Len(log)] :
        /\ \A i \in 1..Len(sub) : log[f[i]] = sub[i]
        /\ \A i, j \in 1..Len(sub) : i < j => f[i] < f[j]

(* C4: for each of the five collections, transform runs the primary-key    *)
(* non-null/unique check and then check_data_quality_dataframe on the      *)
(* selected table before it returns it; no pipeline returns a table on     *)
(* which these checks were not run to completion.                          *)
C4_ChecksCompleteBeforeReturn ==
    \A c \in CollectionSet :
        TransformReturned(c) =>
            IsSubsequence(<<"no null or empty values", "no duplicate values",
                            "All validations passed">>, run[c].log)

---------------------------------------------------------------------------
(* The validators called on their own: one call per behaviour, on a frame  *)
(* with the single column X; the column name Y is the absent column.       *)

PkValues == {Null, EmptyStr, TxtA, TxtB, Num(1)}
IdValues == {Null, EmptyStr, TxtA, TxtAB, TxtBA, TxtABC, Num(7), Num(12)}
DateValues == {Null, EmptyStr, TxtNotADate, TxtBadDate, TxtDate, TxtTimestamp}
TypeValues == {Null, EmptyStr, TxtAbc, TxtNum,
               Bool(TRUE), Bool(FALSE), Num(0), Num(1), Num(2)}

FramesOver(values) ==
    {Frame(<<"X">>, rows) :
        rows \in UNION {[1..n -> {[X |-> v] : v \in values}] : n \in 0..MaxRows}}

ValidatorCalls ==
    {Call("checkNonNullUnique", << >>, df, c, 0, "none") :
        df \in FramesOver(PkValues), c \in {"X", "Y"}}
    \cup {Call("validate_id_column", << >>, df, c, n, "none") :
        df \in FramesOver(IdValues), c \in {"X", "Y"}, n \in 0..MaxIdLen}
    \cup {Call("validate_date_column", << >>, df, c, 0, "none") :
        df \in FramesOver(DateValues), c \in {"X", "Y"}}
    \cup {Call("validate_column_types", << >>, df, c, 0, t) :
        df \in FramesOver(TypeValues), c \in {"X", "Y"},
        t \in {"float", "boolean", "varchar"}}

InitValidate ==
    /\ input \in ValidatorCalls
    /\ result = NoResult
    /\ InitDag

CallCheckNonNullUnique ==
    /\ input.fn = "checkNonNullUnique" /\ result.fn = "none"
    /\ result' = [fn |-> input.fn,
                  out |-> checkNonNullUnique(input.df, input.column_name),
                  df |-> input.df]
    /\ UNCHANGED <<input, dagVars>>

CallValidateIdColumn ==
    /\ input.fn = "validate_id_column" /\ result.fn = "none"
    /\ result' = [fn |-> input.fn,
                  out |-> validate_id_column(input.df, input.column_name,
                                             input.max_length),
                  df |-> input.df]
    /\ UNCHANGED <<input, dagVars>>

CallValidateDateColumn ==
    /\ input.fn = "validate_date_column" /\ result.fn = "none"
    /\ result' = [fn |-> input.fn,
                  out |-> validate_date_column(input.df, input.column_name),
                  df |-> input.df]
    /\ UNCHANGED <<input, dagVars>>

CallValidateColumnTypes ==
    /\ input.fn = "validate_column_types" /\ result.fn = "none"
    /\ LET r == validate_column_types(input.df, input.column_name,
                                      input.expected_type)
       IN  result' = [fn |-> input.fn, out |-> r.out, df |-> r.df]
    /\ UNCHANGED <<input, dagVars>>

NextValidate ==
    \/ CallCheckNonNullUnique
    \/ CallValidateIdColumn
    \/ CallValidateDateColumn
    \/ CallValidateColumnTypes

SpecValidate == InitValidate /\ [][NextValidate]_vars

(* The column the call was made on, when the frame has it.                 *)
Returned(fn) == result.fn = fn /\ HasColumn(input.df, input.column_name)
InputColumn == Column(input.df, input.column_name)

---------------------------------------------------------------------------
(* Claims about the validators, checked under SpecValidate.                *)

HasNullOrEmpty(col) ==
    \E i \in 1..Len(col) : IsNull(col[i]) \/ col[i] = EmptyStr
HasDuplicate(col) == \E i, j \in 1..Len(col) : i # j /\ col[i] = col[j]

(* C7: checkNonNullUnique on a column fails with a PrimaryKeyViolation     *)
(* that reaches the caller if and only if some value of the column is null *)
(* or the empty string, or some value occurs in two rows.                  *)
C7_PrimaryKeyViolationReachesCaller ==
    Returned("checkNonNullUnique") =>
        (result.out.exc = "PrimaryKeyViolationException"
            <=> (HasNullOrEmpty(InputColumn) \/ HasDuplicate(InputColumn)))

IsDateText(v) == IsStr(v) /\ (IsIsoDate(v.s) \/ IsIsoTimestamp(v.s))

(* C9: validate_date_column succeeds if and only if every value of the     *)
(* column parses as a date or timestamp; a null or empty value counts as   *)
(* unparseable; "not-a-date" is rejected, "2023-01-01" and                 *)
(* "2023-01-01T12:00:00Z" are accepted.                                    *)
C9_DateCheck ==
    Returned("validate_date_column") =>
        /\ result.out.exc = "none"
            <=> \A i \in 1..Len(InputColumn) : IsDateText(InputColumn[i])
        /\ (\E i \in 1..Len(InputColumn) :
                InputColumn[i] \in {Null, EmptyStr, TxtNotADate})
            => result.out = Raise("ValueError", "invalid_dates")
        /\ (\A i \in 1..Len(InputColumn) :
                InputColumn[i] \in {TxtDate, TxtTimestamp})
            => result.out = Ok

(* C9 witness: a column whose only unparseable value is a null is rejected.*)
C9_Witness ==
    /\ Returned("validate_date_column")
    /\ \E i \in 1..Len(InputColumn) : InputColumn[i] = Null
    /\ \E i \in 1..Len(InputColumn) : InputColumn[i] \in {TxtDate, TxtTimestamp}
    /\ \A i \in 1..Len(InputColumn) :
           InputColumn[i] \in {Null, TxtDate, TxtTimestamp}
    /\ result.out.exc = "ValueError"

NullsAsZero(df, c) ==
    Frame(df.columns,
          [i \in 1..Len(df.rows) |->
              [k \in DOMAIN df.rows[i] |->
                  IF k = c /\ IsNull(df.rows[i][k]) THEN Num(0)
                  ELSE df.rows[i][k]]])

NumericCoercible(v) ==
    \/ v.k \in {"num", "bool"}
    \/ v.k = "str" /\ IsNumericText(v.s)

(* C10: validate_column_types, for float, first replaces the nulls of the  *)
(* column by 0 and then fails iff some value is not numeric-coercible; for *)
(* boolean it fails iff some value is not one of true, false, 1, 0 (so a   *)
(* null fails); for varchar it never fails and changes nothing.            *)
C10_TypeCheck ==
    Returned("validate_column_types") =>
        /\ input.expected_type = "float" =>
            /\ result.df = NullsAsZero(input.df, input.column_name)
            /\ result.out.exc # "none"
                <=> \E i \in 1..Len(InputColumn) :
                        /\ ~IsNull(InputColumn[i])
                        /\ ~NumericCoercible(InputColumn[i])
        /\ input.expected_type = "boolean" =>
            /\ result.df = input.df
            /\ result.out.exc # "none"
                <=> \E i \in 1..Len(InputColumn) :
                        InputColumn[i] \notin
                            {Bool(TRUE), Bool(FALSE), Num(1), Num(0)}
        /\ input.expected_type = "varchar" =>
            /\ result.df = input.df
            /\ result.out = Ok

(* C10 witness: a float column holding a null and a numeric text passes,   *)
(* and the frame that comes back has 0 where the null was.                 *)
C10_Witness ==
    /\ Returned("validate_column_types")
    /\ input.expected_type = "float"
    /\ \E i \in 1..Len(InputColumn) : InputColumn[i] = Null
    /\ \E i \in 1..Len(InputColumn) : InputColumn[i] = TxtNum
    /\ result.out = Ok
    /\ result.df # input.df

---------------------------------------------------------------------------
(* transform_supplier_group called on its own.                             *)

ClientIdValues == {Oid(TxtC1), TxtC2}
SupplierGroupsValues ==
    {Null,
     Dict(<< >>),
     Dict(<< <<G1, List(<< >>)>> >>),
     Dict(<< <<G1, List(<<Oid(Txt101)>>)>> >>),
     Dict(<< <<G1, List(<<Oid(Txt101), Oid(Txt102)>>)>>,
             <<G2, List(<<Oid(Txt103)>>)>> >>),
     Dict(<< <<G2, List(<<Oid(Txt103)>>)>>,
             <<G1, List(<<Oid(Txt101)>>)>> >>)}

SupplierGroupDocs ==
    {[client_id |-> c, supplier_groups |-> g] :
        c \in ClientIdValues, g \in SupplierGroupsValues}
    \cup {[client_id |-> c] : c \in ClientIdValues}

InitSupplierGroup ==
    /\ input \in {Call("transform_supplier_group", data, NoFrame, "X", 0, "none") :
                    data \in UNION {[1..n -> SupplierGroupDocs] : n \in 0..MaxDocs}}
    /\ result = NoResult
    /\ InitDag

CallTransformSupplierGroup ==
    /\ input.fn = "transform_supplier_group" /\ result.fn = "none"
    /\ LET r == transform_supplier_group(input.data)
       IN  result' = [fn |-> input.fn, out |-> r.out, df |-> r.df]
    /\ UNCHANGED <<input, dagVars>>

NextSupplierGroup == CallTransformSupplierGroup

SpecSupplierGroup == InitSupplierGroup /\ [][NextSupplierGroup]_vars

(* The (document, group, member) triples of an input, and their order.     *)
GroupsOf(doc) ==
    IF "supplier_groups" \in DOMAIN doc /\ doc["supplier_groups"].k = "dict"
    THEN doc["supplier_groups"].pairs
    ELSE << >>
MembersOf(doc, g) == GroupsOf(doc)[g][2].items
Triples(data) ==
    UNION {UNION {{<<d, g, m>> : m \in 1..Len(MembersOf(data[d], g))} :
                    g \in 1..Len(GroupsOf(data[d]))} :
            d \in 1..Len(data)}
Precedes(u, t) ==
    \/ u[1] < t[1]
    \/ u[1] = t[1] /\ u[2] < t[2]
    \/ u[1] = t[1] /\ u[2] = t[2] /\ u[3] < t[3]
Position(data, t) == Cardinality({u \in Triples(data) : Precedes(u, t)}) + 1
Unwrapped(v) == IF v.k = "dict" /\ Len(v.pairs) = 1 /\ v.pairs[1][1] = OidKey
                THEN v.pairs[1][2] ELSE Null
TripleRow(data, t) ==
    [client_id |-> Unwrapped(data[t[1]]["client_id"]),
     group_name |-> Str(GroupsOf(data[t[1]])[t[2]][1]),
     supplier_id |-> Unwrapped(MembersOf(data[t[1]], t[2])[t[3]])]

(* C5: the supplier_group transform produces exactly one output row        *)
(* (client_id, group_name, supplier_id) per (document, group, member)      *)
(* triple, the ids unwrapped from their $oid wrappers, ordered by document *)
(* order, then the mapping's group order, then member list order.          *)
C5_SupplierGroupRowsInOrder ==
    (result.fn = "transform_supplier_group" /\ result.out = Ok) =>
        /\ result.df.columns = <<"client_id", "group_name", "supplier_id">>
        /\ Len(result.df.rows) = Cardinality(Triples(input.data))
        /\ \A t \in Triples(input.data) :
               result.df.rows[Position(input.data, t)] = TripleRow(input.data, t)

(* C5 witness: two documents, the first with two members in g1 and one in  *)
(* g2, the second listing g2 before g1, give five rows.                    *)
C5_Witness ==
    /\ result.fn = "transform_supplier_group" /\ result.out = Ok
    /\ Len(input.data) = 2
    /\ Len(GroupsOf(input.data[1])) = 2 /\ Len(GroupsOf(input.data[2])) = 2
    /\ GroupsOf(input.data[1])[1][1] = G1 /\ GroupsOf(input.data[2])[1][1] = G2
    /\ Len(result.df.rows) = 5

(* C6: a document whose supplier_groups is empty or absent contributes     *)
(* zero rows and does not make the transform fail: for every input,        *)
(* including one where every document has empty or absent supplier_groups, *)
(* the transform returns the rows of the remaining documents.              *)
C6_EmptyOrAbsentGroupsDoNotFail ==
    (result.fn = "transform_supplier_group" /\ Len(input.data) >= 1) =>
        /\ result.out = Ok
        /\ Len(result.df.rows) = Cardinality(Triples(input.data))

---------------------------------------------------------------------------
(* check_data_quality_dataframe called on its own: a one-row frame with    *)
(* column X, with or without column Y, against every schema of at most     *)
(* MaxSchema definitions of distinct columns.                              *)

MaxSchema == 2

SchemaTypes ==
    {"date", "datetime", "DATE", "timestamp", "varchar", "float", "Float",
     "boolean", "array"}
SchemaColumnDefs ==
    {ColumnDef(c, t) : c \in {"X", "Y"}, t \in SchemaTypes}
    \cup {IdDef(c) : c \in {"X", "Y"}}
Schemas ==
    {schema \in UNION {[1..n -> SchemaColumnDefs] : n \in 0..MaxSchema} :
        \A i, j \in 1..Len(schema) :
            i # j => schema[i].name # schema[j].name}

SchemaCells == {Null, TxtAB, TxtDate, TxtAbc, Num(1)}
SchemaFrames ==
    {Frame(<<"X">>, <<[X |-> x]>>) : x \in SchemaCells}
    \cup {Frame(<<"X", "Y">>, <<[X |-> x, Y |-> y]>>) :
            x \in SchemaCells, y \in SchemaCells}

InitSchema ==
    /\ input \in {Call("check_data_quality_dataframe", schema, df, "none", 0,
                       "none") : schema \in Schemas, df \in SchemaFrames}
    /\ result = NoResult
    /\ InitDag

CallCheckDataQualityDataframe ==
    /\ input.fn = "check_data_quality_dataframe" /\ result.fn = "none"
    /\ LET r == check_schema(input.df, input.data)
       IN  result' = [fn |-> input.fn, out |-> r.out, df |-> r.df,
                      calls |-> r.calls]
    /\ UNCHANGED <<input, dagVars>>

NextSchema == CallCheckDataQualityDataframe

SpecSchema == InitSchema /\ [][NextSchema]_vars

(* The one check a column definition calls for, "none" when it calls for   *)
(* none, and the outcome of that check on a frame.                         *)
CheckCalledFor(column_def) ==
    CASE lower(column_def.type) \in {"date", "datetime"} ->
            "validate_date_column"
      [] lower(column_def.type) = "varchar"
         /\ "length" \in DOMAIN column_def -> "validate_id_column"
      [] lower(column_def.type) \in {"float", "boolean"} ->
            "validate_column_types"
      [] OTHER -> "none"

OutcomeOf(df, column_def) ==
    CASE CheckCalledFor(column_def) = "validate_date_column" ->
            validate_date_column(df, column_def.name)
      [] CheckCalledFor(column_def) = "validate_id_column" ->
            validate_id_column(df, column_def.name, column_def.length)
      [] CheckCalledFor(column_def) = "validate_column_types" ->
            validate_column_types(df, column_def.name,
                                  lower(column_def.type)).out
      [] OTHER -> Ok

ChecksPlanned(schema) ==
    LET called == SelectSeq(schema, LAMBDA d : CheckCalledFor(d) # "none")
    IN  [i \in 1..Len(called) |-> Check(CheckCalledFor(called[i]), called[i].name)]

(* C11: check_data_quality_dataframe visits the column definitions in      *)
(* schema order and applies to each exactly the check its definition calls *)
(* for (date check for a type containing "date", id check for varchar with *)
(* a length, type check for float or boolean, none otherwise); the first   *)
(* failing check in that order is the failure reported; a table with no    *)
(* schema entry fails before any column is checked.                        *)
C11_SchemaChecksInOrder ==
    result.fn = "check_data_quality_dataframe" =>
        LET schema == input.data
            failing == {i \in 1..Len(schema) :
                           OutcomeOf(input.df, schema[i]).exc # "none"}
            first == CHOOSE i \in failing : \A j \in failing : i <= j
        IN  IF schema = << >>
            THEN result.out = Raise("ValueError", "no schema")
                 /\ result.calls = << >>
            ELSE IF failing = {}
            THEN result.out = Ok /\ result.calls = ChecksPlanned(schema)
            ELSE /\ result.out = OutcomeOf(input.df, schema[first])
                 /\ result.calls = ChecksPlanned(SubSeq(schema, 1, first))

(* C11 witness: both columns fail their checks, an id check on Y declared  *)
(* first and a date check on X declared second; the id failure on Y is the *)
(* one reported and the date check is never entered.                       *)
C11_Witness ==
    /\ result.fn = "check_data_quality_dataframe"
    /\ Len(input.data) = 2
    /\ input.data[1] = IdDef("Y") /\ input.data[2] = ColumnDef("X", "date")
    /\ validate_date_column(input.df, "X").exc = "ValueError"
    /\ result.out = Raise("ValueError", "less_than_length")
    /\ result.calls = <<Check("validate_id_column", "Y")>>

---------------------------------------------------------------------------
(* TransformationFactory.transform called on its own, on up to MaxDocs     *)
(* documents of the collection: well-formed ones, ones with a null or a    *)
(* repeated id, an invalid value, a key left out or a key too many.        *)

Without(doc, key) == [k \in DOMAIN doc \ {key} |-> doc[k]]

TransformDocs(c) ==
    CASE c = "clients" ->
            {ClientsDoc(IdA1, TxtDate), ClientsDoc(IdA2, TxtTimestamp),
             ClientsDoc(IdA1, TxtNotADate), ClientsDoc(Null, TxtDate),
             Without(ClientsDoc(IdA2, TxtDate), "_id.$oid"),
             Without(ClientsDoc(IdA2, TxtDate), "contract_start.$date"),
             ClientsDoc(IdA2, TxtDate) @@ ("country" :> TxtB)}
      [] c = "supplier_group" ->
            {SupplierGroupDoc(Dict(<< <<G1, List(<<Oid(Txt101)>>)>> >>)),
             SupplierGroupDoc(Dict(<< >>))}
      [] c = "suppliers" ->
            {SuppliersDoc(IdA1, Bool(TRUE), Num(2)),
             SuppliersDoc(IdA2, Bool(FALSE), Null),
             SuppliersDoc(IdA1, TxtAbc, Num(2)),
             Without(SuppliersDoc(IdA2, Bool(TRUE), Num(2)), "_id.$oid"),
             Without(SuppliersDoc(IdA2, Bool(TRUE), Num(2)), "priority")}
      [] c = "sonar_runs" ->
            {SonarRunsDoc(IdA1), SonarRunsDoc(IdA2),
             Without(SonarRunsDoc(IdA2), "time.$date"),
             Without(SonarRunsDoc(IdA2), "supplier_ids")}
      [] c = "sonar_results" ->
            {SonarResultsDoc(IdA1, TxtDate), SonarResultsDoc(IdA2, TxtTimestamp),
             SonarResultsDoc(IdA2, EmptyStr),
             Without(SonarResultsDoc(IdA2, TxtDate), "date_found.$date")}
      [] OTHER -> {ClientsDoc(IdA1, TxtDate), SuppliersDoc(IdA1, Bool(TRUE), Num(2))}

UnknownCases == {"unknown", "Clients", "client"}

TransformInputs(c) == UNION {[1..n -> TransformDocs(c)] : n \in 0..MaxDocs}

TransformCalls ==
    UNION {{[fn |-> "transform", data |-> data, case |-> c] :
                data \in TransformInputs(c)} :
           c \in CollectionSet \cup UnknownCases}

InitTransform ==
    /\ input \in TransformCalls
    /\ result = NoResult
    /\ InitDag

CallTransform ==
    /\ input.fn = "transform" /\ result.fn = "none"
    /\ LET r == transform(input.data, input.case)
       IN  result' = [fn |-> input.fn, out |-> r.out, df |-> r.df, log |-> r.log]
    /\ UNCHANGED <<input, dagVars>>

NextTransform == CallTransform

SpecTransform == InitTransform /\ [][NextTransform]_vars

TransformCalled == result.fn = "transform"

(* C12: transform called with a collection name outside the five fails     *)
(* with the unknown-case error, runs no mapping, selection or validation   *)
(* step and returns no table.                                              *)
C12_UnknownCaseFails ==
    (TransformCalled /\ input.case \notin CollectionSet) =>
        /\ result.out = Raise("ValueError", "Unknown transformation case")
        /\ result.df = NoFrame
        /\ result.log = << >>

(* C12 witness: a call with a name that differs from "clients" by its      *)
(* capital letter only, on documents the clients pipeline accepts.         *)
C12_Witness ==
    /\ TransformCalled
    /\ input.case = "Clients"
    /\ input.data = <<ClientsDoc(IdA1, TxtDate)>>
    /\ result.out.exc = "ValueError"

(* The input field a column of the select list is renamed from.            *)
FieldOf(case, column) ==
    LET m == Rename(case)
    IN  IF \E i \in 1..Len(m.to) : m.to[i] = column
        THEN m.from[CHOOSE i \in 1..Len(m.to) : m.to[i] = column]
        ELSE column

Projected == {"clients", "suppliers", "sonar_runs", "sonar_results"}

(* The columns of the select list absent from at least one record.         *)
AbsentColumns(data, case) ==
    {column \in Range(Select(case)) :
        \E i \in 1..Len(data) : FieldOf(case, column) \notin DOMAIN data[i]}

(* C13: column selection over records in which a select-list column is     *)
(* absent fails with a missing-column error naming every absent column,    *)
(* not with a generic lookup failure, and no table is returned.            *)
C13_MissingColumnsReported ==
    (/\ TransformCalled
     /\ input.case \in Projected
     /\ AbsentColumns(input.data, input.case) # {}) =>
        /\ result.out.exc \notin {"none", "KeyError"}
        /\ result.df = NoFrame

(* A table came back from one of the four pipelines that select columns.   *)
TableReturned ==
    TransformCalled /\ input.case \in Projected /\ result.out = Ok

ChecksPassed == "All validations passed" \in Range(result.log)

(* The renamed input field of a document, NaN where the document lacks it. *)
RawCell(case, doc, column) ==
    IF FieldOf(case, column) \in DOMAIN doc THEN doc[FieldOf(case, column)]
                                            ELSE NaN

(* The field after the flattening the pipeline of the collection applies.  *)
MappedCell(case, doc, column) ==
    CASE case = "clients" /\ column \in {"suppliers", "sonar_dates"} ->
            extract_values(RawCell(case, doc, column)).value
      [] case = "sonar_runs" /\ column \in {"supplier_ids", "client_part_ids"} ->
            oid_list(RawCell(case, doc, column)).value
      [] OTHER -> RawCell(case, doc, column)

FloatColumns(case) ==
    {schema_definitions(case)[i].name : i \in
        {j \in 1..Len(schema_definitions(case)) :
            schema_definitions(case)[j].type = "float"}}

(* What the returned table holds: the mapped field, with 0 for a null of a *)
(* float column once the schema check has run.                             *)
ExpectedCell(case, doc, column) ==
    IF ChecksPassed /\ column \in FloatColumns(case)
       /\ IsNull(MappedCell(case, doc, column))
    THEN Num(0)
    ELSE MappedCell(case, doc, column)

ShapeAsSelected ==
    /\ Len(result.df.rows) = Len(input.data)
    /\ result.df.columns = Select(input.case)
    /\ \A i \in 1..Len(result.df.rows) :
           DOMAIN result.df.rows[i] = Range(Select(input.case))

(* C14 as stated: every table returned for clients, suppliers, sonar_runs  *)
(* and sonar_results has one record per input document, in input order,    *)
(* with exactly the select-list columns in the declared order, each        *)
(* holding the value of the corresponding renamed input field.             *)
C14_RecordsHoldInputFields ==
    TableReturned =>
        /\ ShapeAsSelected
        /\ \A i \in 1..Len(input.data) :
               \A column \in Range(Select(input.case)) :
                   result.df.rows[i][column] =
                       RawCell(input.case, input.data[i], column)

(* C14 amended: every table returned for clients, suppliers, sonar_runs    *)
(* and sonar_results has one record per input document, in input order,    *)
(* with exactly the select-list columns in the declared order, each        *)
(* holding the renamed input field as the pipeline's flattening leaves it, *)
(* NaN where the document lacks the field, and 0 for a null of a float     *)
(* column when the schema check has run.                                   *)
C14_RecordsHoldMappedFields ==
    TableReturned =>
        /\ ShapeAsSelected
        /\ \A i \in 1..Len(input.data) :
               \A column \in Range(Select(input.case)) :
                   result.df.rows[i][column] =
                       ExpectedCell(input.case, input.data[i], column)

(* C14 witness: two suppliers documents pass every check; the second has   *)
(* no priority and its record comes back with priority 0.                  *)
C14_Witness ==
    /\ TableReturned /\ ChecksPassed
    /\ input.case = "suppliers"
    /\ Len(input.data) = 2
    /\ "priority" \in DOMAIN input.data[2]
    /\ input.data[2]["priority"] = Null
    /\ result.df.rows[2]["priority"] = Num(0)
    /\ result.df.rows[1]["supplier_id"] = IdA1
    /\ result.df.rows[2]["supplier_id"] = IdA2

---------------------------------------------------------------------------
(* Claims about the order of the tasks of a DAG run, checked under Spec.   *)

Started(c) == tries[c] > 0
InProgress(c) == task[c] \in {"running", "up_for_retry"}
Before(c) == {d \in CollectionSet : IndexOf(d) < IndexOf(c)}
After(c) == {d \in CollectionSet : IndexOf(d) > IndexOf(c)}

(* C15: the five collections are processed strictly one after another in   *)
(* the order clients, supplier_group, suppliers, sonar_runs,               *)
(* sonar_results: a collection never starts before every collection        *)
(* before it has run to completion, and no two are in progress at once.    *)
C15_OneCollectionAtATime ==
    /\ \A c \in CollectionSet :
           Started(c) =>
               \A d \in Before(c) : task[d] = "success" /\ run[d].pc = "done"
    /\ Cardinality({c \in CollectionSet : InProgress(c)}) <= 1

(* C15 witness: the last collection is being processed after the first     *)
(* needed its second try and the three between them their first only.      *)
C15_Witness ==
    /\ task["sonar_results"] = "running"
    /\ tries["clients"] = 2
    /\ \A d \in Before("sonar_results") : task[d] = "success"

(* C16: a failure while processing one collection aborts only that         *)
(* collection's pipeline: the collections after it are still processed,    *)
(* and the failed run truncates or writes no other collection's table.     *)
C16_FailureAbortsOneCollectionOnly ==
    \A c \in CollectionSet :
        task[c] = "failed" =>
            /\ \A d \in After(c) : task[d] # "upstream_failed"
            /\ \A d \in After(c) : db[d] = PreviousRows(d)

(* The input fields named "<field>.$date", and "<field>_date" for each.    *)
DateFields ==
    {"contract_start.$date", "contract_end.$date", "time.$date", "date.$date",
     "date_sonar.$date", "date_found.$date"}

UnderscoreDate(field) ==
    CASE field = "contract_start.$date" -> "contract_start_date"
      [] field = "contract_end.$date" -> "contract_end_date"
      [] field = "time.$date" -> "time_date"
      [] field = "date.$date" -> "date_date"
      [] field = "date_sonar.$date" -> "date_sonar_date"
      [] field = "date_found.$date" -> "date_found_date"

(* The column the rename table of the collection gives an input field.     *)
ColumnOf(case, field) ==
    LET m == Rename(case)
    IN  IF \E i \in 1..Len(m.from) : m.from[i] = field
        THEN m.to[CHOOSE i \in 1..Len(m.from) : m.from[i] = field]
        ELSE field

HoldsField(column, field) ==
    /\ column \in Range(result.df.columns)
    /\ \A i \in 1..Len(input.data) :
           result.df.rows[i][column] =
               IF field \in DOMAIN input.data[i] THEN input.data[i][field]
                                                 ELSE NaN

(* C17 as stated: for every collection and every input field named         *)
(* "<field>.$date", the table returned by transform has a column named     *)
(* exactly "<field>_date" that holds the field's value unchanged for every *)
(* row.                                                                    *)
C17_DateFieldsBecomeUnderscoreDate ==
    (TransformCalled /\ result.out = Ok) =>
        \A field \in DateFields \cap Keys(input.data) :
            HoldsField(UnderscoreDate(field), field)

(* C17 amended: for every collection and every input field named           *)
(* "<field>.$date" that the collection's rename table names, the table     *)
(* returned by transform has the column the rename table gives the field   *)
(* (contract_start_date, contract_end_date, sonar_run_time,                *)
(* sonar_run_date, date_sonar, date_found), holding the field's value      *)
(* unchanged for every row.                                                *)
C17_DateFieldsBecomeRenamedColumns ==
    (TransformCalled /\ result.out = Ok) =>
        \A field \in DateFields \cap Keys(input.data) :
            HoldsField(ColumnOf(input.case, field), field)

(* C17 witness: a sonar_runs table whose sonar_run_time holds time.$date   *)
(* and whose sonar_run_date holds date.$date.                              *)
C17_Witness ==
    /\ TransformCalled /\ result.out = Ok /\ ChecksPassed
    /\ input.case = "sonar_runs"
    /\ Len(input.data) >= 1
    /\ "time.$date" \in DOMAIN input.data[1]
    /\ result.df.rows[1]["sonar_run_time"] = TxtTimestamp
    /\ result.df.rows[1]["sonar_run_date"] = TxtDate

---------------------------------------------------------------------------
(* process_dict_columns called on its own, once and then once more on the  *)
(* frame it returned: a frame with the single column X, the named column   *)
(* being X or the absent Y.                                                *)

OtherKey == <<"n", "a", "m", "e">>
Wrapped(key, v) == Dict(<< <<key, v>> >>)

FlattenValues ==
    {Null, NaN, TxtA, Oid(TxtA),
     List(<< >>),
     List(<<TxtA, TxtB>>),
     List(<<Oid(TxtA)>>),
     List(<<Oid(TxtA), Oid(TxtB)>>),
     List(<<Wrapped(OtherKey, TxtB), Wrapped(OtherKey, Num(1))>>),
     List(<<Oid(TxtA), Wrapped(OtherKey, TxtB)>>),
     List(<<Dict(<< <<OidKey, TxtA>>, <<OtherKey, TxtB>> >>)>>),
     List(<<Dict(<< >>)>>),
     List(<<Oid(TxtA), Dict(<< >>)>>),
     List(<<Oid(TxtA), TxtB>>)}

InitFlatten ==
    /\ input \in {Call("process_dict_columns", column_names, df, "X", 0, "none") :
                    column_names \in {<<"X">>, <<"Y">>},
                    df \in FramesOver(FlattenValues)}
    /\ result = NoResult
    /\ InitDag

CallProcessDictColumns ==
    /\ input.fn = "process_dict_columns" /\ result.fn = "none"
    /\ LET r == process_dict_columns(input.df, input.data)
       IN  result' = [fn |-> input.fn, out |-> r.out, df |-> r.df,
                      once |-> r.df, applied |-> 1]
    /\ UNCHANGED <<input, dagVars>>

CallProcessDictColumnsAgain ==
    /\ result.fn = "process_dict_columns" /\ result.applied = 1
    /\ result.out = Ok
    /\ LET r == process_dict_columns(result.df, input.data)
       IN  result' = [result EXCEPT !.out = r.out, !.df = r.df, !.applied = 2]
    /\ UNCHANGED <<input, dagVars>>

NextFlatten ==
    \/ CallProcessDictColumns
    \/ CallProcessDictColumnsAgain

SpecFlatten == InitFlatten /\ [][NextFlatten]_vars

(* A non-empty list of mappings that all have exactly one and the same key,*)
(* and the list of the values under that key.                              *)
IsWrapperList(v) ==
    /\ v.k = "list" /\ Len(v.items) > 0
    /\ \A i \in 1..Len(v.items) :
           v.items[i].k = "dict" /\ Len(v.items[i].pairs) = 1
    /\ \A i, j \in 1..Len(v.items) :
           v.items[i].pairs[1][1] = v.items[j].pairs[1][1]

Unwrapped_values(v) == List([i \in 1..Len(v.items) |-> v.items[i].pairs[1][2]])

FlattenedOnce == result.fn = "process_dict_columns" /\ result.applied = 1

(* C18: for each named field, a non-empty list of mappings that all have   *)
(* exactly one and the same key is replaced by the list of the values      *)
(* under that key, in list order; every other value (empty list, mappings  *)
(* with different or several keys, a list containing an empty mapping or a *)
(* non-mapping element, a non-list) is returned unchanged and no error is  *)
(* raised; a named field absent from the records fails with KeyError.      *)
C18_FlattenSingleKeyLists ==
    FlattenedOnce =>
        IF ~HasColumn(input.df, input.data[1])
        THEN result.out.exc = "KeyError"
        ELSE /\ result.out = Ok
             /\ Len(result.df.rows) = Len(input.df.rows)
             /\ \A i \in 1..Len(input.df.rows) :
                    result.df.rows[i]["X"] =
                        IF IsWrapperList(input.df.rows[i]["X"])
                        THEN Unwrapped_values(input.df.rows[i]["X"])
                        ELSE input.df.rows[i]["X"]

IsScalarList(v) ==
    v.k = "list" /\ \A i \in 1..Len(v.items) : v.items[i].k \in {"str", "num", "bool", "null"}

(* C19: process_dict_columns is idempotent on flattened fields: applied    *)
(* again to a frame whose field values are lists of scalars (the result of *)
(* one flattening of lists of single-key wrappers around scalars), it      *)
(* returns the same values.                                                *)
C19_FlattenIsIdempotent ==
    (/\ result.fn = "process_dict_columns" /\ result.applied = 2
     /\ \A i \in 1..Len(result.once.rows) :
            IsScalarList(result.once.rows[i]["X"])) =>
        /\ result.out = Ok
        /\ result.df = result.once

(* C19 witness: a list of two wrappers was flattened by the first call and *)
(* the second call has been made on the list of their two values.          *)
C19_Witness ==
    /\ result.fn = "process_dict_columns" /\ result.applied = 2
    /\ Len(input.df.rows) >= 1
    /\ input.df.rows[1]["X"] = List(<<Oid(TxtA), Oid(TxtB)>>)
    /\ result.once.rows[1]["X"] = List(<<TxtA, TxtB>>)
    /\ \A i \in 1..Len(result.once.rows) :
           IsScalarList(result.once.rows[i]["X"])

---------------------------------------------------------------------------
(* validate_and_insert_data called on its own: the frame of a valid table  *)
(* from which up to MaxMissing of the required columns have been dropped.  *)

MaxMissing == 2

Drop(df, dropped) ==
    Frame(SelectSeq(df.columns, LAMBDA col : col \notin dropped),
          [i \in 1..Len(df.rows) |->
              [col \in DOMAIN df.rows[i] \ dropped |-> df.rows[i][col]]])

LoaderFrames(c) ==
    {Drop(transform(PreviousData(c), c).df, dropped) :
        dropped \in {d \in SUBSET Range(output_column_names(c)) :
                        Cardinality(d) <= MaxMissing}}

InitLoad ==
    /\ input = NoCall /\ result = NoResult
    /\ db = [c \in CollectionSet |-> PreviousRows(c)]
    /\ \E c \in CollectionSet :
           /\ task = [d \in CollectionSet |-> IF d = c THEN "running" ELSE "none"]
           /\ tries = [d \in CollectionSet |-> IF d = c THEN 1 ELSE 0]
           /\ \E df \in LoaderFrames(c) :
                  run = [d \in CollectionSet |->
                            IF d = c
                            THEN [IdleRun EXCEPT !.pc = "load", !.df = df,
                                                 !.before = PreviousRows(c)]
                            ELSE IdleRun]

NextLoad ==
    \E c \in CollectionSet :
        \/ Truncate(c)
        \/ LoadRaises(c)
        \/ Insert(c)
        \/ InsertRaises(c)

SpecLoad == InitLoad /\ [][NextLoad]_vars

(* The required output columns the frame handed to the loader lacks.       *)
Lacking(c) ==
    {col \in Range(output_column_names(c)) : col \notin Range(run[c].df.columns)}

(* C20: when the table handed to validate_and_insert_data lacks any of the *)
(* required output columns, the call fails with a ValueError listing the   *)
(* missing columns before the TRUNCATE is issued, and the target table's   *)
(* rows are left unchanged.                                                *)
C20_MissingColumnsBlockTheLoad ==
    \A c \in CollectionSet :
        (run[c].pc # "idle" /\ Lacking(c) # {}) =>
            /\ run[c].pc \in {"load", "raised"}
            /\ run[c].pc = "raised" =>
                   /\ Logged(c, "Missing columns")
                   /\ Range(run[c].missing) = Lacking(c)
                   /\ Len(run[c].missing) = Cardinality(Lacking(c))
            /\ ~Logged(c, "TRUNCATE") /\ ~Logged(c, "INSERT")
            /\ db[c] = PreviousRows(c)

(* C20 witness: the call for suppliers has failed on a frame without       *)
(* supplier_id and currency.                                               *)
C20_Witness ==
    /\ run["suppliers"].pc = "raised"
    /\ Lacking("suppliers") = {"supplier_id", "currency"}
    /\ run["suppliers"].missing = <<"supplier_id", "currency">>
    /\ db["suppliers"] = PreviousRows("suppliers")

---------------------------------------------------------------------------
(* A failed schema check in a run of the DAG, checked under Spec.          *)

(* The primary key of every document is there, not empty, and unique.      *)
PrimaryKeySound(data) ==
    /\ \A i \in 1..Len(data) :
           /\ "_id.$oid" \in DOMAIN data[i]
           /\ ~IsNull(data[i]["_id.$oid"]) /\ data[i]["_id.$oid"] # EmptyStr
    /\ \A i, j \in 1..Len(data) :
           i # j => data[i]["_id.$oid"] # data[j]["_id.$oid"]

SchemaCheckFailed(c) ==
    /\ c \in Projected
    /\ run[c].pc \notin {"idle", "extract", "transform"}
    /\ PrimaryKeySound(run[c].data)
    /\ Logged(c, "Validation failed")

(* C21: for clients, suppliers, sonar_runs and sonar_results, when the     *)
(* primary-key checks pass and a schema check (date, id length or type)    *)
(* fails inside transform, the failure leaves transform and run_etl as an  *)
(* error, transform returns no table, and the loader's truncate and insert *)
(* are never executed for that collection in that run.                     *)
C21_SchemaFailureStopsTheRun ==
    \A c \in CollectionSet :
        SchemaCheckFailed(c) =>
            /\ run[c].pc = "raised"
            /\ task[c] \in {"up_for_retry", "failed"}
            /\ run[c].df = NoFrame
            /\ ~Logged(c, "TRUNCATE") /\ ~Logged(c, "INSERT")
            /\ db[c] = run[c].before

(* C21 witness: the suppliers task has failed its second try on a document *)
(* whose id is sound and whose login is no boolean; its table still holds  *)
(* the rows of the earlier run.                                            *)
C21_Witness ==
    /\ SchemaCheckFailed("suppliers")
    /\ task["suppliers"] = "failed" /\ tries["suppliers"] = 2
    /\ run["suppliers"].data[1]["login"] = TxtAbc
    /\ Logged("suppliers", "no duplicate values")
    /\ db["suppliers"] = PreviousRows("suppliers")

=============================================================================
